---- MODULE Spec2Model ----
(***************************************************************************)
(* A model of bls_data.BlsData (src/bls_data/bls.py): the constructor      *)
(* (merge of the series payloads, period normalisation, location           *)
(* resolution) and the presentation methods clean_df, create_table and     *)
(* create_graph.                                                           *)
(*                                                                         *)
(* Strings are tuples of one-character strings, so that slicing, regular   *)
(* expression matching, str.replace, re.split and the date formats are     *)
(* computed character by character.                                        *)
(***************************************************************************)
EXTENDS Integers, Sequences, FiniteSets, TLC

VARIABLES series_ids, raw_data, raw_df, df, locations, pc, err, branches,
          view, raised, call

vars == <<series_ids, raw_data, raw_df, df, locations, pc, err, branches,
          view, raised, call>>

(***************************************************************************)
(* Bounds of the model.                                                    *)
(***************************************************************************)
\* the largest number of series payloads in one raw_data list
MaxSeries == 2
\* the largest number of observations in one payload's data list
MaxObs == 2

(***************************************************************************)
(* Characters and strings.                                                 *)
(***************************************************************************)
Dig == <<"0","1","2","3","4","5","6","7","8","9">>
Digits == {Dig[i] : i \in 1..10}
Upper == {"A","B","C","D","E","F","G","H","I","J","K","L","M","N","O","P","Q","R","S","T","U","V","W","X","Y","Z"}
\* the characters of the model in code point order (Python compares str by code point)
Alphabet == <<" ",",","-","0","1","2","3","4","5","6","7","8","9","A","B","C","D","E","F","G","H","I","J","K","L","M","N","O","P","Q","R","S","T","U","V","W","X","Y","Z","_","a","b","c","d","e","f","g","h","i","j","k","l","m","n","o","p","q","r","s","t","u","v","w","x","y","z","|">>

Range(s) == {s[i] : i \in 1..Len(s)}
DigitVal(c) == CHOOSE n \in 0..9 : Dig[n + 1] = c
Rank(c) == CHOOSE i \in 1..Len(Alphabet) : Alphabet[i] = c
IsDigits(s) == Len(s) > 0 /\ \A i \in 1..Len(s) : s[i] \in Digits

\* int(s) of a string of decimal digits
RECURSIVE ToInt(_)
ToInt(s) ==
  IF s = <<>> THEN 0
  ELSE 10 * ToInt(SubSeq(s, 1, Len(s) - 1)) + DigitVal(s[Len(s)])

\* str(n) of a natural number
RECURSIVE IntToStr(_)
IntToStr(n) ==
  IF n < 10 THEN <<Dig[n + 1]>>
  ELSE IntToStr(n \div 10) \o <<Dig[(n % 10) + 1]>>

\* n in at least w digits, zero padded (the %m and %Y of strftime)
RECURSIVE ZeroPad(_, _)
ZeroPad(s, w) == IF Len(s) >= w THEN s ELSE ZeroPad(<<"0">> \o s, w)

\* s.replace(c, '') for a one-character c
RemoveChar(s, c) == SelectSeq(s, LAMBDA x : x # c)

\* the position of the first c in s, 0 when there is none
IndexOf(s, c) ==
  IF c \in Range(s) THEN CHOOSE i \in 1..Len(s) : s[i] = c /\ \A j \in 1..(i - 1) : s[j] # c
  ELSE 0

\* a < b for Python str
RECURSIVE StrLess(_, _)
StrLess(a, b) ==
  IF b = <<>> THEN FALSE
  ELSE IF a = <<>> THEN TRUE
  ELSE IF a[1] # b[1] THEN Rank(a[1]) < Rank(b[1])
  ELSE StrLess(Tail(a), Tail(b))

(***************************************************************************)
(* Series identifiers, and the rows of the three area code tables that the *)
(* model uses (bls_data/__init__.py loads the tables from its data files). *)
(***************************************************************************)
EN_CA == <<"E","N","U","0","6","0","0","0","1","0","0","1","0">>
EN_ZZ == <<"E","N","U","9","9","9","9","9","1","0","0","1","0">>
LA_AL == <<"L","A","U","C","N","0","1","0","0","1","0","0","0","0","0","0","0","0","0","3">>
OE_AB == <<"O","E","U","M","0","0","1","0","1","8","0","0","0","0","0","0","0","0","0","0","0","0","0","0","1">>
CU_US == <<"C","U","U","R","0","0","0","0","S","A","0">>
EN_BAD == <<"E","N","X">>

NAME_CA == <<"C","a","l","i","f","o","r","n","i","a"," ","-","-"," ","S","t","a","t","e","w","i","d","e">>
NAME_AL == <<"A","u","t","a","u","g","a"," ","C","o","u","n","t","y",","," ","A","L">>
NAME_AB == <<"A","b","i","l","e","n","e",","," ","T","X">>
NAME_CUSTOM == <<"W","e","s","t">>

\* area_fips -> area_title
qcew_area_codes_df == (<<"0","6","0","0","0">> :> NAME_CA)
\* area_code -> area_text
la_area_codes_df == (<<"C","N","0","1","0","0","1","0","0","0","0","0","0","0","0">> :> NAME_AL)
\* area_code -> area_name
oes_area_codes_df == (<<"0","0","1","0","1","8","0">> :> NAME_AB)

EmptyMap == [k \in {} |-> <<>>]

(***************************************************************************)
(* Frames.  A merged frame has the value columns cols and rows             *)
(* [year, period, vals], vals aligned with cols; a cell is <<>> (NaN) or   *)
(* <<n>>.  The canonical frame has rows [date, vals].                      *)
(***************************************************************************)
NaN == <<>>
EmptyFrame == [cols |-> <<>>, rows |-> <<>>]
NoDf == [isNone |-> TRUE, cols |-> <<>>, rows |-> <<>>]
NoErr == [kind |-> "", stage |-> ""]

KeyOf(r) == <<r.year, r.period>>
KeyLess(k1, k2) ==
  StrLess(k1[1], k2[1]) \/ (k1[1] = k2[1] /\ StrLess(k1[2], k2[2]))

\* the keys of S in lexicographic order (an outer merge sorts its keys)
RECURSIVE SortedKeys(_)
SortedKeys(S) ==
  IF S = {} THEN <<>>
  ELSE LET m == CHOOSE k \in S : \A j \in S \ {k} : KeyLess(k, j)
       IN <<m>> \o SortedKeys(S \ {m})

RowsAt(rows, k) == SelectSeq(rows, LAMBDA r : KeyOf(r) = k)
NaNs(n) == [i \in 1..n |-> NaN]

\* pd.to_numeric of one value
CanNumeric(v) == IsDigits(v)
to_numeric(v) == ToInt(v)

\* series_df: the payload's rows (year, period, value), value numeric
SeriesDf(bls_series) ==
  [i \in 1..Len(bls_series.data) |->
     [year |-> bls_series.data[i].year, period |-> bls_series.data[i].period,
      value |-> to_numeric(bls_series.data[i].value)]]

\* the rows of an outer merge at key k, from the left rows L and the right rows R
\* at k, the left frame having n value columns
OuterJoin(L, R, n, k) ==
  IF L = <<>>
    THEN [i \in 1..Len(R) |->
            [year |-> k[1], period |-> k[2], vals |-> NaNs(n) \o << <<R[i].value>> >>]]
  ELSE IF R = <<>>
    THEN [i \in 1..Len(L) |->
            [year |-> k[1], period |-> k[2], vals |-> L[i].vals \o <<NaN>>]]
  ELSE [i \in 1..(Len(L) * Len(R)) |->
            [year |-> k[1], period |-> k[2],
             vals |-> L[((i - 1) \div Len(R)) + 1].vals
                        \o << <<R[((i - 1) % Len(R)) + 1].value>> >>]]

\* the rows of left and right at key k under how='inner'
InnerRowsAt(left, right, k) ==
  IF RowsAt(left.rows, k) = <<>> \/ RowsAt(right, k) = <<>> THEN <<>>
  ELSE OuterJoin(RowsAt(left.rows, k), RowsAt(right, k), Len(left.cols), k)

\* the rows of left and right at key k under how='outer'
OuterRowsAt(left, right, k) ==
  OuterJoin(RowsAt(left.rows, k), RowsAt(right, k), Len(left.cols), k)

RECURSIVE MergeRows(_, _, _)
MergeRows(left, right, keys) ==
  IF keys = <<>> THEN <<>>
  ELSE OuterRowsAt(left, right, keys[1]) \o MergeRows(left, right, Tail(keys))

\* bls_df.merge(right=series_df, on=['year', 'period'], how='outer'): a value column
\* of the same name on both sides gets the suffixes _x (left) and _y (right)
Merge(left, right, id) ==
  LET overlap == id \in Range(left.cols)
      lcols == [i \in 1..Len(left.cols) |->
                  IF left.cols[i] = id THEN id \o <<"_","x">> ELSE left.cols[i]]
      rcol == IF overlap THEN id \o <<"_","y">> ELSE id
      keys == {KeyOf(left.rows[i]) : i \in 1..Len(left.rows)}
                \cup {KeyOf(right[i]) : i \in 1..Len(right)}
  IN [cols |-> lcols \o <<rcol>>,
      rows |-> MergeRows(left, right, SortedKeys(keys))]

\* whether the suffixed names of a merge collide with a column already there
MergeCollides(left, id) ==
  /\ id \in Range(left.cols)
  /\ \/ (id \o <<"_","x">>) \in Range(left.cols)
     \/ (id \o <<"_","y">>) \in Range(left.cols)

\* _construct_df: the loop over raw_data from payload i on, bls_df so far
RECURSIVE ConstructFrom(_, _, _)
ConstructFrom(data, i, bls_df) ==
  IF i > Len(data) THEN [err |-> "", frame |-> bls_df]
  ELSE IF data[i].data = <<>> THEN ConstructFrom(data, i + 1, bls_df)
  ELSE IF \E j \in 1..Len(data[i].data) : ~CanNumeric(data[i].data[j].value)
    THEN [err |-> "ValueError", frame |-> EmptyFrame]
  ELSE IF MergeCollides(bls_df, data[i].seriesID)
    THEN [err |-> "MergeError", frame |-> EmptyFrame]
  ELSE ConstructFrom(data, i + 1, Merge(bls_df, SeriesDf(data[i]), data[i].seriesID))

_construct_df(data) == ConstructFrom(data, 1, EmptyFrame)

(***************************************************************************)
(* _organize_df.  The working frame w carries the rows                     *)
(* [year, period, date, vals], whether the date column exists, the         *)
(* exception raised so far and the frequency branches entered.             *)
(***************************************************************************)
BadDate == [ok |-> FALSE, year |-> 0, month |-> 0]

\* the quarter digit taken as the month
QuarterDigitAsMonth(q) == q

\* the month that a quarter string YYYY-Qq parses to: the quarter's first month
QuarterMonth(q) == 3 * (q - 1) + 1
\* the text of s before position i
Before(s, i) == SubSeq(s, 1, i - 1)
\* the text of s after position i
After(s, i) == SubSeq(s, i + 1, Len(s))

\* the date of a year text y and a period text t: Qq is a quarter (q in 1..4),
\* m and mm a month (1..12)
ParseYearPeriod(y, t) ==
  IF ~IsDigits(y) \/ Len(y) # 4 THEN BadDate
  ELSE IF Len(t) = 2 /\ t[1] = "Q" /\ t[2] \in {"1","2","3","4"}
    THEN [ok |-> TRUE, year |-> ToInt(y), month |-> QuarterMonth(DigitVal(t[2]))]
  ELSE IF IsDigits(t) /\ Len(t) <= 2 /\ ToInt(t) \in 1..12
    THEN [ok |-> TRUE, year |-> ToInt(y), month |-> ToInt(t)]
  ELSE BadDate

\* pd.to_datetime(s) without a format, for the strings YYYY-period the branches build
to_datetime(s) ==
  IF IndexOf(s, "-") = 0 THEN BadDate
  ELSE ParseYearPeriod(Before(s, IndexOf(s, "-")), After(s, IndexOf(s, "-")))

\* %m-%Y with the month taken as any one or two digits
ParseMonthYearUnchecked(m, y) ==
  IF IsDigits(m) /\ Len(m) <= 2 /\ IsDigits(y) /\ Len(y) = 4
    THEN [ok |-> TRUE, year |-> ToInt(y), month |-> ToInt(m)]
  ELSE BadDate

\* the date of a month text m and a year text y under %m-%Y
ParseMonthYear(m, y) ==
  IF /\ IsDigits(m) /\ Len(m) <= 2 /\ ToInt(m) \in 1..12
     /\ IsDigits(y) /\ Len(y) = 4
    THEN [ok |-> TRUE, year |-> ToInt(y), month |-> ToInt(m)]
  ELSE BadDate

\* pd.to_datetime(s, format='%m-%Y')
to_datetime_mY(s) ==
  IF IndexOf(s, "-") = 0 THEN BadDate
  ELSE ParseMonthYear(Before(s, IndexOf(s, "-")), After(s, IndexOf(s, "-")))

\* x.strftime('%Y-%m')
strftime_Ym(d) ==
  ZeroPad(IntToStr(d.year), 4) \o <<"-">> \o ZeroPad(IntToStr(d.month), 2)

\* df.loc[0]['period'][0] == ch
FirstPeriodIs(w, ch) == w.rows[1].period # <<>> /\ w.rows[1].period[1] = ch

\* the date column from the parsed date strings, or the ValueError of to_datetime
WithDates(w, rows, parsed, branch) ==
  IF \E i \in 1..Len(rows) : ~parsed[i].ok
    THEN [w EXCEPT !.rows = rows, !.err = "ValueError",
                   !.branches = w.branches \o <<branch>>]
  ELSE [w EXCEPT !.rows = [i \in 1..Len(rows) |->
                             [rows[i] EXCEPT !.date = strftime_Ym(parsed[i])]],
                 !.hasDate = TRUE,
                 !.branches = w.branches \o <<branch>>]

\* df['period'].str.replace(ch, ''): every period without its characters ch
ReplacePeriod(rows, ch) ==
  [i \in 1..Len(rows) |-> [rows[i] EXCEPT !.period = RemoveChar(rows[i].period, ch)]]

\* the quarterly branch after the 0s are removed
QuarterlyDates(w, rows) ==
  WithDates(w, rows,
            [i \in 1..Len(rows) |-> to_datetime(rows[i].year \o <<"-">> \o rows[i].period)],
            "Q")

\* the quarterly branch written as a conversion to monthly periods
\* (Q0q becomes M0q) that leaves the date to the monthly branch
OrganizeQuarterlyAsMonthly(w) ==
  [w EXCEPT !.rows = [i \in 1..Len(w.rows) |->
                        [w.rows[i] EXCEPT !.period =
                           [j \in 1..Len(w.rows[i].period) |->
                              IF w.rows[i].period[j] = "Q" THEN "M"
                              ELSE w.rows[i].period[j]]]],
            !.branches = w.branches \o <<"Q">>]

\* the quarterly branch (lines 137-140)
OrganizeQuarterly(w) ==
  QuarterlyDates(w, ReplacePeriod(w.rows, "0"))

\* the monthly branch after the M is removed
MonthlyDates(w, rows) ==
  WithDates(w, rows,
            [i \in 1..Len(rows) |-> to_datetime_mY(rows[i].period \o <<"-">> \o rows[i].year)],
            "M")

\* the monthly branch (lines 143-146)
OrganizeMonthly(w) ==
  MonthlyDates(w, ReplacePeriod(w.rows, "M"))

\* str(int(p) * 6)
TimesSix(p) == IntToStr(ToInt(p) * 6)

\* (df['period'].map(int)*6).map(str)
PeriodTimesSix(rows) ==
  [i \in 1..Len(rows) |-> [rows[i] EXCEPT !.period = TimesSix(rows[i].period)]]

\* the semi-annual branch after the S is removed: the half year times 6 as the month
SemiAnnualDates(w, stripped) ==
  IF \E i \in 1..Len(stripped) : ~IsDigits(stripped[i].period)
    \* .map(int) raises
    THEN [w EXCEPT !.rows = stripped, !.err = "ValueError",
                   !.branches = w.branches \o <<"S">>]
  ELSE WithDates(w, PeriodTimesSix(stripped),
                 [i \in 1..Len(stripped) |->
                    to_datetime(stripped[i].year \o <<"-">> \o TimesSix(stripped[i].period))],
                 "S")

\* the semi-annual branch (lines 149-156)
OrganizeSemiAnnual(w) ==
  SemiAnnualDates(w, ReplacePeriod(w.rows, "S"))

\* the annual branch (lines 159-160): the year column becomes the date column
OrganizeAnnual(w) ==
  [w EXCEPT !.rows = [i \in 1..Len(w.rows) |->
                        [w.rows[i] EXCEPT !.date = w.rows[i].year]],
            !.hasDate = TRUE,
            !.branches = w.branches \o <<"A">>]

\* rows in ascending order of date (sort_index), equal dates in their given order
RECURSIVE InsertByDate(_, _)
InsertByDate(sorted, r) ==
  IF sorted = <<>> THEN <<r>>
  ELSE IF StrLess(r.date, sorted[1].date) THEN <<r>> \o sorted
  ELSE <<sorted[1]>> \o InsertByDate(Tail(sorted), r)

RECURSIVE SortByDate(_)
SortByDate(rows) ==
  IF rows = <<>> THEN <<>>
  ELSE InsertByDate(SortByDate(SubSeq(rows, 1, Len(rows) - 1)), rows[Len(rows)])

\* the branch of frequency ch
Organize(w, ch) ==
  CASE ch = "Q" -> OrganizeQuarterly(w)
    [] ch = "M" -> OrganizeMonthly(w)
    [] ch = "S" -> OrganizeSemiAnnual(w)
    [] ch = "A" -> OrganizeAnnual(w)

\* one of the four ifs, in order: the test reads the period column as the
\* branches before it left it; nothing runs after an exception
Branch(w, ch) ==
  IF w.err = "" /\ FirstPeriodIs(w, ch) THEN Organize(w, ch) ELSE w

\* the frame that enters the four ifs
CopyOf(raw) ==
  [rows |-> [i \in 1..Len(raw.rows) |->
               [year |-> raw.rows[i].year, period |-> raw.rows[i].period,
                date |-> <<>>, vals |-> raw.rows[i].vals]],
   hasDate |-> FALSE, err |-> "", branches |-> <<>>]

\* the rows without the period and year columns
DropPeriodYear(rows) == [i \in 1..Len(rows) |-> [date |-> rows[i].date, vals |-> rows[i].vals]]

\* set_index('date'), sort_index and drop (lines 163-169) on the frame w that
\* leaves the four ifs
IndexAndSort(raw, w) ==
  IF w.err # ""
    THEN [err |-> w.err, df |-> NoDf, branches |-> w.branches]
  ELSE IF ~w.hasDate
    \* set_index('date') without a date column
    THEN [err |-> "KeyError", df |-> NoDf, branches |-> w.branches]
  ELSE [err |-> "",
        df |-> [isNone |-> FALSE, cols |-> raw.cols,
                rows |-> DropPeriodYear(SortByDate(w.rows))],
        branches |-> w.branches]

\* _organize_df on the merged frame raw
_organize_df(raw) ==
  IF raw.rows = <<>>
    \* df.loc[0] of a frame without rows
    THEN [err |-> "KeyError", df |-> NoDf, branches |-> <<>>]
  ELSE IF raw.rows[1].period = <<>>
    \* ''[0]
    THEN [err |-> "IndexError", df |-> NoDf, branches |-> <<>>]
  ELSE IndexAndSort(raw, Branch(Branch(Branch(Branch(CopyOf(raw), "Q"), "M"), "S"), "A"))

(***************************************************************************)
(* _get_location.                                                          *)
(***************************************************************************)
AllIn(s, a, b, S) == \A i \in a..b : s[i] \in S

\* re.search(r'^[A-Z]{3}([\d|U][\d|S]\d\d\d)', series)
EnMatches(s) ==
  /\ Len(s) >= 8
  /\ AllIn(s, 1, 3, Upper)
  /\ s[4] \in Digits \cup {"|", "U"}
  /\ s[5] \in Digits \cup {"|", "S"}
  /\ AllIn(s, 6, 8, Digits)
EnCode(s) == SubSeq(s, 4, 8)

\* re.search(r'^[A-Z]{3}([A-Z]{2}\d{13})', series)
LaMatches(s) ==
  /\ Len(s) >= 18
  /\ AllIn(s, 1, 5, Upper)
  /\ AllIn(s, 6, 18, Digits)
LaCode(s) == SubSeq(s, 4, 18)

\* re.search(r'^[A-Z]*(\d\d\d\d\d\d\d)', series): the letters matched are the
\* whole leading run of capitals, since a digit must follow them
LeadingCapitals(s) ==
  CHOOSE k \in 0..Len(s) : AllIn(s, 1, k, Upper) /\ (k = Len(s) \/ s[k + 1] \notin Upper)
OeMatches(s) ==
  LET k == LeadingCapitals(s)
  IN Len(s) >= k + 7 /\ AllIn(s, k + 1, k + 7, Digits)
OeCode(s) == SubSeq(s, LeadingCapitals(s) + 1, LeadingCapitals(s) + 7)

\* series[0:2]
Prefix2(s) == SubSeq(s, 1, IF Len(s) < 2 THEN Len(s) ELSE 2)

\* d[k] = v
Put(d, k, v) == [x \in DOMAIN d \cup {k} |-> IF x = k THEN v ELSE d[x]]

\* one of the three ifs with a code that its table lacks skipped
LookupOrSkip(r, series, isFamily, matches, code, table) ==
  IF r.err # "" \/ ~isFamily THEN r
  ELSE IF ~matches THEN [r EXCEPT !.err = "AttributeError"]
  ELSE IF code \notin DOMAIN table THEN r
  ELSE [r EXCEPT !.map = Put(r.map, series, table[code])]

\* one of the three ifs of the loop body: the family test, the code's extraction
\* (AttributeError: no match, so .group of None) and the table's .loc (KeyError)
Lookup(r, series, isFamily, matches, code, table) ==
  IF r.err # "" \/ ~isFamily THEN r
  ELSE IF ~matches THEN [r EXCEPT !.err = "AttributeError"]
  ELSE IF code \notin DOMAIN table THEN [r EXCEPT !.err = "KeyError"]
  ELSE [r EXCEPT !.map = Put(r.map, series, table[code])]

\* the loop body of _get_location for one series (lines 297-305)
ResolveSeries(r, series) ==
  LET en == Lookup(r, series, Prefix2(series) = <<"E","N">>, EnMatches(series),
                   EnCode(series), qcew_area_codes_df)
      la == Lookup(en, series, Prefix2(series) = <<"L","A">>, LaMatches(series),
                   LaCode(series), la_area_codes_df)
  IN Lookup(la, series, Prefix2(series) = <<"O","E">>, OeMatches(series),
            OeCode(series), oes_area_codes_df)

RECURSIVE ResolveFrom(_, _, _)
ResolveFrom(ids, i, r) ==
  IF i > Len(ids) \/ r.err # "" THEN r
  ELSE ResolveFrom(ids, i + 1, ResolveSeries(r, ids[i]))

_get_location(ids) == ResolveFrom(ids, 1, [err |-> "", map |-> EmptyMap])

(***************************************************************************)
(* clean_df, create_table, create_graph.                                   *)
(***************************************************************************)
\* the position of the first ',' of name, 0 when there is none
FirstComma(name) == IndexOf(name, ",")

\* the position where the first '--' or ',' of name starts, 0 when there is none
FirstSeparator(name) ==
  LET isSep(i) == \/ name[i] = ","
                  \/ (name[i] = "-" /\ i < Len(name) /\ name[i + 1] = "-")
  IN IF \E i \in 1..Len(name) : isSep(i)
       THEN CHOOSE i \in 1..Len(name) : isSep(i) /\ \A j \in 1..(i - 1) : ~isSep(j)
     ELSE 0

\* re.split('--|,', loc)[0]
ShortName(loc) ==
  IF FirstSeparator(loc) = 0 THEN loc ELSE SubSeq(loc, 1, FirstSeparator(loc) - 1)

\* d.update(u)
Update(d, u) == [k \in DOMAIN d \cup DOMAIN u |-> IF k \in DOMAIN u THEN u[k] ELSE d[k]]

\* bool(custom_column_names)
Truthy(custom) ==
  \/ custom.kind = "list"
  \/ (custom.kind = "dict" /\ DOMAIN custom.map # {})

NoView == [kind |-> "none", cols |-> <<>>, rows |-> <<>>, transposed |-> FALSE]

\* the dictionary that clean_df renames with, before the overrides: a new
\* dictionary of short names, or self.locations itself
RenameSource(locs, short) ==
  [aliased |-> ~short,
   cols |-> IF short THEN [id \in DOMAIN locs |-> ShortName(locs[id])] ELSE locs]

\* the rename of clean_df (line 285) with the dictionary cols
Rename(frame, cols, locsAfter) ==
  IF frame.isNone
    \* None.rename
    THEN [err |-> "AttributeError", frame |-> NoDf, locations |-> locsAfter]
  ELSE IF \E k \in DOMAIN cols : k \notin Range(frame.cols)
    \* rename(errors="raise")
    THEN [err |-> "KeyError", frame |-> NoDf, locations |-> locsAfter]
  ELSE [err |-> "",
        frame |-> [frame EXCEPT !.cols = [i \in 1..Len(frame.cols) |->
                                            IF frame.cols[i] \in DOMAIN cols
                                              THEN cols[frame.cols[i]]
                                            ELSE frame.cols[i]]],
        locations |-> locsAfter]

\* lines 281-285 of clean_df, src the dictionary of line 280: cols.update writes
\* into self.locations when cols is self.locations
ApplyOverrides(frame, locs, custom, src) ==
  IF ~Truthy(custom) THEN Rename(frame, src.cols, locs)
  ELSE IF custom.kind # "dict"
    THEN [err |-> "TypeError", frame |-> NoDf, locations |-> locs]
  ELSE IF src.aliased
    THEN Rename(frame, Update(src.cols, custom.map), Update(src.cols, custom.map))
  ELSE Rename(frame, Update(src.cols, custom.map), locs)

\* clean_df(custom_column_names, short_location_names) on self.df and
\* self.locations: the exception or the renamed frame, and self.locations after
clean_df(frame, locs, custom, short) ==
  ApplyOverrides(frame, locs, custom, RenameSource(locs, short))

Reverse(s) == [i \in 1..Len(s) |-> s[Len(s) + 1 - i]]
HasDuplicates(s) == \E i, j \in 1..Len(s) : i # j /\ s[i] = s[j]

(***************************************************************************)
(* The inputs: the raw_data lists the constructor is given.  series_ids    *)
(* are the payloads' identifiers, as from_json and the API request have    *)
(* them.                                                                   *)
(***************************************************************************)
Y2020 == <<"2","0","2","0">>
Y2021 == <<"2","0","2","1">>
Years == {Y2020, Y2021}

Obs(y, p, v) == [year |-> y, period |-> p, value |-> v]
Payload(id, data) == [seriesID |-> id, data |-> data]
SeqsUpTo(S, n) == UNION {[1..k -> S] : k \in 0..n}
NonEmptySeqsUpTo(S, n) == UNION {[1..k -> S] : k \in 1..n}
IdsOf(data) == [i \in 1..Len(data) |-> data[i].seriesID]

\* merging: up to MaxSeries payloads of up to MaxObs monthly observations
MergeIds == {EN_CA, LA_AL, CU_US}
MergeObs == {Obs(Y2020, <<"M","0","1">>, <<"0">>), Obs(Y2021, <<"M","0","1">>, <<"7">>)}
MergeInputs ==
  NonEmptySeqsUpTo({Payload(id, d) : id \in MergeIds, d \in SeqsUpTo(MergeObs, MaxObs)},
                   MaxSeries)

\* period normalisation: one payload of up to MaxObs observations of one frequency
QuarterlyPeriods == {<<"Q","0",Dig[q + 1]>> : q \in 0..5}
MonthlyPeriods == {<<"M","0","1">>, <<"M","0","3">>, <<"M","1","0">>, <<"M","1","2">>, <<"M","1","3">>}
SemiAnnualPeriods == {<<"S","0","1">>, <<"S","0","2">>, <<"S","0","3">>}
AnnualPeriods == {<<"A","0","1">>}
\* a period of no frequency the code knows, and the frequencies mixed
OtherPeriods == {<<"R","0","1">>, <<"M","0","1">>, <<"S","0","1">>, <<"A","0","1">>}
PeriodFamilies ==
  {QuarterlyPeriods \X Years, MonthlyPeriods \X Years, SemiAnnualPeriods \X Years,
   AnnualPeriods \X Years, OtherPeriods \X {Y2021}}
PeriodInputs ==
  UNION {{<<Payload(EN_CA, d)>> :
            d \in SeqsUpTo({Obs(py[2], py[1], <<"5">>) : py \in family}, MaxObs)} :
         family \in PeriodFamilies}

\* location resolution: up to MaxSeries payloads of any family, each without
\* data, with one observation or with one observation whose value is '-'
LocationIds == {EN_CA, EN_ZZ, LA_AL, OE_AB, CU_US, EN_BAD}
LocationData ==
  {<<>>, <<Obs(Y2021, <<"M","0","1">>, <<"3">>)>>, <<Obs(Y2021, <<"M","0","1">>, <<"-">>)>>}
LocationInputs ==
  NonEmptySeqsUpTo({Payload(id, d) : id \in LocationIds, d \in LocationData}, MaxSeries)

\* presentation: up to MaxSeries payloads, each without data or with two
\* monthly observations, the later one first as the API lists them
PresentationData ==
  {<<>>, <<Obs(Y2021, <<"M","0","1">>, <<"3">>), Obs(Y2020, <<"M","0","1">>, <<"0">>)>>}
PresentationInputs ==
  NonEmptySeqsUpTo({Payload(id, d) : id \in MergeIds, d \in PresentationData}, MaxSeries)

\* the arguments of clean_df, create_table and create_graph
None == [kind |-> "None", map |-> EmptyMap]
CustomColumnNames ==
  {None,
   [kind |-> "dict", map |-> EmptyMap],
   [kind |-> "dict", map |-> (EN_CA :> NAME_CUSTOM)],
   [kind |-> "list", map |-> EmptyMap]}
GraphTypes == {"line", "bar", "pie"}
NoCall == [op |-> "", custom |-> None, short |-> TRUE]

(***************************************************************************)
(* The state machine.                                                      *)
(***************************************************************************)
InitWith(inputs) ==
  /\ raw_data \in inputs
  /\ series_ids = IdsOf(raw_data)
  /\ raw_df = EmptyFrame
  /\ df = NoDf
  /\ locations = EmptyMap
  /\ pc = "new"
  /\ err = NoErr
  /\ branches = <<>>
  /\ view = NoView
  /\ raised = ""
  /\ call = NoCall

Init == InitWith(PresentationInputs)
InitBuild == InitWith(MergeInputs \cup PeriodInputs \cup LocationInputs)

\* the test left out
AnyFrame(frame) == TRUE

\* len(self.raw_df) > 0
HasRows(frame) == Len(frame.rows) > 0

Fail(kind, stage) ==
  /\ pc' = "failed"
  /\ err' = [kind |-> kind, stage |-> stage]

\* line 53, after lines 51-52 gave the frames c and o
Locate(c, o, g) ==
  /\ raw_df' = c.frame
  /\ df' = o.df
  /\ branches' = o.branches
  /\ IF g.err # ""
       THEN /\ Fail(g.err, "_get_location")
            /\ UNCHANGED locations
     ELSE /\ pc' = "ready"
          /\ locations' = g.map
          /\ UNCHANGED err

\* lines 52-53, after line 51 gave the frame c
OrganizeAndLocate(c, o) ==
  IF o.err # ""
    THEN /\ Fail(o.err, "_organize_df")
         /\ raw_df' = c.frame
         /\ branches' = o.branches
         /\ UNCHANGED <<df, locations>>
  ELSE Locate(c, o, _get_location(series_ids))

\* lines 51-53, c the result of _construct_df
Build(c) ==
  IF c.err # ""
    THEN /\ Fail(c.err, "_construct_df")
         /\ UNCHANGED <<raw_df, df, locations, branches>>
  ELSE IF HasRows(c.frame)
    THEN OrganizeAndLocate(c, _organize_df(c.frame))
  ELSE OrganizeAndLocate(c, [err |-> "", df |-> NoDf, branches |-> <<>>])

\* __init__ with raw_data given (lines 44-53)
Construct ==
  /\ pc = "new"
  /\ Build(_construct_df(raw_data))
  /\ UNCHANGED <<series_ids, raw_data, view, raised, call>>

\* the frame a presentation method returns
View(kind, frame, transposed) ==
  [kind |-> kind, cols |-> frame.cols, rows |-> frame.rows, transposed |-> transposed]

\* the state after clean_df returned or raised r
Cleaned(r, kind, transposed) ==
  /\ locations' = r.locations
  /\ raised' = r.err
  /\ view' = IF r.err # "" THEN NoView ELSE View(kind, r.frame, transposed)

\* clean_df (lines 276-287)
CleanDf ==
  /\ pc = "ready"
  /\ \E custom \in CustomColumnNames, short \in BOOLEAN :
       /\ Cleaned(clean_df(df, locations, custom, short), "frame", FALSE)
       /\ call' = [op |-> "clean_df", custom |-> custom, short |-> short]
  /\ UNCHANGED <<series_ids, raw_data, raw_df, df, pc, err, branches>>

\* lines 238-265 of create_table on the cleaned frame r
Tabulated(r, descending) ==
  /\ locations' = r.locations
  /\ IF r.err # ""
       THEN raised' = r.err /\ view' = NoView
     ELSE IF HasDuplicates(r.frame.cols)
       \* table_df[col].to_list() of a repeated column name
       THEN raised' = "AttributeError" /\ view' = NoView
     ELSE /\ raised' = ""
          /\ view' = [kind |-> "table", cols |-> r.frame.cols,
                       rows |-> IF descending THEN Reverse(r.frame.rows) ELSE r.frame.rows,
                       transposed |-> FALSE]

\* create_table (lines 235-265): the table of the cleaned frame, the rows in
\* descending order of date when asked
CreateTable ==
  /\ pc = "ready"
  /\ \E custom \in CustomColumnNames, short \in BOOLEAN, descending \in BOOLEAN :
       /\ Tabulated(clean_df(df, locations, custom, short), descending)
       /\ call' = [op |-> "create_table", custom |-> custom, short |-> short]
  /\ UNCHANGED <<series_ids, raw_data, raw_df, df, pc, err, branches>>

\* create_graph (lines 196-217): the graph type is checked before the frame is cleaned
CreateGraph ==
  /\ pc = "ready"
  /\ \E graph_type \in GraphTypes, custom \in CustomColumnNames,
        short \in BOOLEAN, transpose \in BOOLEAN :
       /\ call' = [op |-> "create_graph", custom |-> custom, short |-> short]
       /\ IF graph_type \notin {"line", "bar"}
            THEN /\ raised' = "ValueError"
                 /\ view' = NoView
                 /\ UNCHANGED locations
          ELSE Cleaned(clean_df(df, locations, custom, short), graph_type, transpose)
  /\ UNCHANGED <<series_ids, raw_data, raw_df, df, pc, err, branches>>

Next == Construct \/ CleanDf \/ CreateTable \/ CreateGraph

Spec == Init /\ [][Next]_vars
\* the constructor alone, on the inputs of the merge, the periods and the locations
SpecBuild == InitBuild /\ [][Construct]_vars

(***************************************************************************)
(* The claims.                                                             *)
(***************************************************************************)
\* the constructor got past _construct_df and _organize_df
TablesBuilt == pc # "new" /\ err.stage \notin {"_construct_df", "_organize_df"}

DataOf(i) == raw_data[i].data
PairsOf(i) == {<<DataOf(i)[j].year, DataOf(i)[j].period>> : j \in 1..Len(DataOf(i))}
AllPairs == UNION {PairsOf(i) : i \in 1..Len(raw_data)}
\* how often payload i lists the pair k
Multiplicity(i, k) ==
  Cardinality({j \in 1..Len(DataOf(i)) : <<DataOf(i)[j].year, DataOf(i)[j].period>> = k})
NoPairRepeated ==
  \A i \in 1..Len(raw_data) : \A k \in PairsOf(i) : Multiplicity(i, k) = 1

\* the product of the multiplicities of k in the payloads from i on that list it
RECURSIVE RowsExpectedAt(_, _)
RowsExpectedAt(k, i) ==
  IF i > Len(raw_data) THEN 1
  ELSE (IF k \in PairsOf(i) THEN Multiplicity(i, k) ELSE 1) * RowsExpectedAt(k, i + 1)

RECURSIVE RowsExpected(_)
RowsExpected(K) ==
  IF K = {} THEN 0
  ELSE LET k == CHOOSE x \in K : TRUE
       IN RowsExpectedAt(k, 1) + RowsExpected(K \ {k})

\* the payloads that have observations, in order: one value column each
WithData == SelectSeq(raw_data, LAMBDA p : p.data # <<>>)
HasObsAt(p, k, v) ==
  \E j \in 1..Len(p.data) :
    p.data[j].year = k[1] /\ p.data[j].period = k[2] /\ ToInt(p.data[j].value) = v

\* in the merged frame, a cell is absent exactly when its series has no
\* observation at the row's pair, and holds an observed value otherwise
CellsAbsentWhereUnobserved ==
  /\ Len(raw_df.cols) = Len(WithData)
  /\ \A r \in 1..Len(raw_df.rows) : \A c \in 1..Len(raw_df.cols) :
       LET cell == raw_df.rows[r].vals[c]
           k == <<raw_df.rows[r].year, raw_df.rows[r].period>>
       IN IF k \in {<<WithData[c].data[j].year, WithData[c].data[j].period>> :
                       j \in 1..Len(WithData[c].data)}
            THEN Len(cell) = 1 /\ HasObsAt(WithData[c], k, cell[1])
          ELSE cell = <<>>

\* the canonical frame has the cells of the merged frame, row for row
SameCells ==
  /\ Len(df.rows) = Len(raw_df.rows)
  /\ \A r \in 1..Len(raw_df.rows) :
       Cardinality({i \in 1..Len(df.rows) : df.rows[i].vals = raw_df.rows[r].vals})
         = Cardinality({i \in 1..Len(raw_df.rows) : raw_df.rows[i].vals = raw_df.rows[r].vals})

\* C1 as stated: the canonical table has exactly one row per distinct
\* (year, period) pair of the payloads that have observations, and the cell of
\* a series that has no observation at a pair is absent, not zero.
C1_OneRowPerDistinctPair ==
  (TablesBuilt /\ AllPairs # {}) =>
    /\ ~df.isNone
    /\ Len(df.rows) = Cardinality(AllPairs)
    /\ CellsAbsentWhereUnobserved

\* C1 as amended: the canonical table has, for each distinct (year, period)
\* pair, as many rows as the product of the numbers of times the payloads that
\* list the pair list it, which is exactly one row per distinct pair when no
\* payload lists a pair twice; and the cell of a series that has no observation
\* at a pair is absent, not zero.
C1_RowsPerDistinctPair ==
  (TablesBuilt /\ AllPairs # {}) =>
    /\ ~df.isNone
    /\ Len(df.rows) = RowsExpected(AllPairs)
    /\ NoPairRepeated => Len(df.rows) = Cardinality(AllPairs)
    /\ SameCells
    /\ CellsAbsentWhereUnobserved

\* two series observed at different pairs: two rows, each with an absent cell
C1_Witness ==
  /\ pc = "ready"
  /\ Len(raw_data) = 2
  /\ PairsOf(1) # {} /\ PairsOf(2) # {} /\ PairsOf(1) \cap PairsOf(2) = {}
  /\ NoPairRepeated
  /\ Len(df.rows) = 2
  /\ \E r \in 1..2 : df.rows[r].vals[1] = <<>> /\ df.rows[r].vals[2] = <<0>>

OnlyPayloadIsEmpty == Len(raw_data) = 1 /\ raw_data[1].data = <<>>

\* C2 as stated: when the only payload has no observations, construction
\* succeeds and BlsData.df is an empty table, with no rows and no value
\* columns, not an absent value.
C2_EmptyCanonicalTable ==
  (OnlyPayloadIsEmpty /\ pc # "new" /\ err.stage # "_get_location") =>
    /\ pc = "ready"
    /\ ~df.isNone
    /\ df.rows = <<>> /\ df.cols = <<>>

\* C2 as amended: when the only payload has no observations, the merge gives
\* an empty raw_df (no rows, no value columns) without an error,
\* _organize_df is not run and BlsData.df is None; the constructor can then
\* fail only in _get_location.
C2_EmptyInputLeavesDfNone ==
  (OnlyPayloadIsEmpty /\ pc # "new") =>
    /\ raw_df.rows = <<>> /\ raw_df.cols = <<>>
    /\ df.isNone
    /\ branches = <<>>
    /\ pc = "failed" => err.stage = "_get_location"

C2_Witness == OnlyPayloadIsEmpty /\ pc = "ready" /\ df.isNone /\ locations # EmptyMap

\* C3: after construction BlsData.locations never changes, whatever clean_df,
\* create_table and create_graph are called with.
C3_LocationsNeverChange == [][pc = "ready" => locations' = locations]_vars

\* a series of one of the three families whose code its table lacks
CodeIsUnknown(s) ==
  \/ Prefix2(s) = <<"E","N">> /\ EnMatches(s) /\ EnCode(s) \notin DOMAIN qcew_area_codes_df
  \/ Prefix2(s) = <<"L","A">> /\ LaMatches(s) /\ LaCode(s) \notin DOMAIN la_area_codes_df
  \/ Prefix2(s) = <<"O","E">> /\ OeMatches(s) /\ OeCode(s) \notin DOMAIN oes_area_codes_df
SomeCodeIsUnknown == \E i \in 1..Len(series_ids) : CodeIsUnknown(series_ids[i])
Resolvable == {EN_CA, LA_AL, OE_AB}

\* C4 as stated: an identifier whose code its table lacks fails alone, the
\* other identifiers of the series list are still resolved.
C4_OthersStillResolved ==
  (TablesBuilt /\ SomeCodeIsUnknown) =>
    \A i \in 1..Len(series_ids) :
      series_ids[i] \in Resolvable => series_ids[i] \in DOMAIN locations

\* C4 as amended: an identifier whose code its table lacks makes the lookup
\* raise KeyError, which aborts the resolution of the whole series list and
\* the construction: no Location Map is produced, not even for the
\* identifiers before it that resolve.
C4_UnknownCodeAbortsResolution ==
  (pc # "new" /\ SomeCodeIsUnknown) =>
    /\ pc = "failed"
    /\ locations = EmptyMap
    /\ (err.stage = "_get_location" /\ EN_BAD \notin Range(series_ids))
         => err.kind = "KeyError"

C4_Witness ==
  /\ series_ids = <<EN_CA, EN_ZZ>>
  /\ pc = "failed" /\ err = [kind |-> "KeyError", stage |-> "_get_location"]
  /\ ~df.isNone

\* the number a period code carries after its frequency letter, -1 when the
\* rest is not a number
PeriodNumber(p) == IF IsDigits(Tail(p)) THEN ToInt(Tail(p)) ELSE -1
\* the month that a period code of the table's frequency f stands for is a
\* calendar month: a quarter 1..4, a month 1..12, a half year times 6 in 1..12
MonthIsValid(f, p) ==
  /\ p[1] = f
  /\ CASE f = "Q" -> PeriodNumber(p) \in 1..4
       [] f = "M" -> PeriodNumber(p) \in 1..12
       [] f = "S" -> PeriodNumber(p) * 6 \in 1..12
Frequency == raw_df.rows[1].period[1]
Merged == pc # "new" /\ err.stage # "_construct_df" /\ raw_df.rows # <<>>

\* C5: for a table of frequency Q, M or S, a row whose year and constructed
\* month are no calendar year-month makes the normalisation raise for the
\* whole table (ValueError is the code's PeriodParseError): no canonical table
\* is produced.
C5_InvalidMonthAborts ==
  (/\ Merged
   /\ Frequency \in {"Q", "M", "S"}
   /\ \E r \in 1..Len(raw_df.rows) : ~MonthIsValid(Frequency, raw_df.rows[r].period)) =>
    /\ pc = "failed"
    /\ err = [kind |-> "ValueError", stage |-> "_organize_df"]
    /\ df = NoDf

\* a monthly table with the rows M01 and M13
C5_Witness ==
  /\ pc = "failed" /\ err.stage = "_organize_df"
  /\ Len(raw_df.rows) = 2
  /\ raw_df.rows[1].period = <<"M","0","1">>
  /\ raw_df.rows[2].period = <<"M","1","3">>

\* C6: two payloads of one merge with the same series identifier make the
\* merger fail fast; no table with collided or renamed value columns is built.
C6_DuplicateIdsFailFast ==
  (/\ pc # "new"
   /\ \E i, j \in 1..Len(raw_data) :
        i # j /\ raw_data[i].seriesID = raw_data[j].seriesID
              /\ raw_data[i].data # <<>> /\ raw_data[j].data # <<>>) =>
    pc = "failed" /\ err.stage = "_construct_df"

QuarterlyBuilt ==
  Merged /\ Frequency = "Q" /\ TablesBuilt /\ ~df.isNone
DateOfQuarter(obs, month) == obs.year \o <<"-">> \o month[DigitVal(obs.period[3])]
\* the dates of the canonical table are those of the observations under the
\* mapping month of the quarter digits 1..4 to the month text
QuarterDatesAre(month) ==
  /\ \A j \in 1..Len(DataOf(1)) :
       \E r \in 1..Len(df.rows) : df.rows[r].date = DateOfQuarter(DataOf(1)[j], month)
  /\ \A r \in 1..Len(df.rows) :
       \E j \in 1..Len(DataOf(1)) : df.rows[r].date = DateOfQuarter(DataOf(1)[j], month)

\* C7 as stated: in a quarterly table the row of period Q0d and year Y gets the
\* date key Y-0d, the quarter digit used as the month.
C7_QuarterDigitIsMonth ==
  QuarterlyBuilt =>
    QuarterDatesAre(<< <<"0","1">>, <<"0","2">>, <<"0","3">>, <<"0","4">> >>)

\* C7 as amended: in a quarterly table the row of period Q0d (d in 1..4) and
\* year Y gets a date key YYYY-MM within year Y whose month is the first month
\* of quarter d: Q01 gives Y-01, Q02 gives Y-04, Q03 gives Y-07, Q04 gives Y-10.
C7_QuarterFirstMonth ==
  QuarterlyBuilt =>
    QuarterDatesAre(<< <<"0","1">>, <<"0","4">>, <<"0","7">>, <<"1","0">> >>)

C7_Witness ==
  /\ pc = "ready"
  /\ DataOf(1) = <<Obs(Y2021, <<"Q","0","2">>, <<"5">>)>>
  /\ df.rows[1].date = <<"2","0","2","1","-","0","4">>

ShortCall == pc = "ready" /\ call.op # "" /\ call.short /\ raised = ""
Overridden(id) == Truthy(call.custom) /\ id \in DOMAIN call.custom.map
SeparatorAt(loc, i) ==
  /\ i \in 1..Len(loc)
  /\ \/ loc[i] = ","
     \/ (loc[i] = "-" /\ i < Len(loc) /\ loc[i + 1] = "-")
\* name is the text of loc before its first '--' or ','
IsTextBeforeSeparator(name, loc) ==
  \E n \in 0..Len(loc) :
    /\ name = SubSeq(loc, 1, n)
    /\ \A j \in 1..n : ~SeparatorAt(loc, j)
    /\ n = Len(loc) \/ SeparatorAt(loc, n + 1)

\* C8 as stated: in short-names mode the column of a series whose resolved
\* name is "California -- Statewide" is named "California", nothing before or
\* after it.
C8_ShortNameIsCalifornia ==
  ShortCall =>
    \A i \in 1..Len(df.cols) :
      (/\ df.cols[i] \in DOMAIN locations
       /\ locations[df.cols[i]] = NAME_CA
       /\ ~Overridden(df.cols[i])) =>
        view.cols[i] = <<"C","a","l","i","f","o","r","n","i","a">>

\* C8 as amended: in short-names mode clean_df renames a series column to
\* exactly the text of its resolved name before the first '--' or ',', blanks
\* included: "California -- Statewide" gives "California " with its trailing
\* blank.
C8_ShortNameKeepsBlank ==
  ShortCall =>
    \A i \in 1..Len(df.cols) :
      (df.cols[i] \in DOMAIN locations /\ ~Overridden(df.cols[i])) =>
        /\ IsTextBeforeSeparator(view.cols[i], locations[df.cols[i]])
        /\ locations[df.cols[i]] = NAME_CA =>
             view.cols[i] = <<"C","a","l","i","f","o","r","n","i","a"," ">>

C8_Witness ==
  /\ ShortCall /\ call.op = "clean_df" /\ call.custom = None
  /\ df.cols = <<EN_CA, LA_AL>>
  /\ view.cols = << <<"C","a","l","i","f","o","r","n","i","a"," ">>,
                    <<"A","u","t","a","u","g","a"," ","C","o","u","n","t","y">> >>

\* C9: when the period of row 0 starts with Q, M, S or A, exactly one of the
\* four frequency branches of _organize_df runs, the one of that letter: no
\* later test fires on the period column that the branch rewrote.
C9_ExactlyOneBranch ==
  (Merged /\ Frequency \in {"Q", "M", "S", "A"}) => branches = <<Frequency>>

\* a monthly table: the tests for S and A read the rewritten periods 01 and 12
C9_Witness ==
  /\ pc = "ready" /\ branches = <<"M">>
  /\ Len(df.rows) = 2
  /\ raw_df.rows[2].period = <<"M","1","2">>

NoSharedIds == \A i, j \in 1..Len(raw_data) : raw_data[i].seriesID = raw_data[j].seriesID => i = j

\* C10: when some series has observations, every key of the Location Map is a
\* value column of the canonical table, so clean_df without overrides does not
\* fail on a rename key, also when a series with a location has no observations.
C10_LocationKeysAreColumns ==
  (pc = "ready" /\ AllPairs # {} /\ NoSharedIds /\ locations = _get_location(series_ids).map) =>
    /\ DOMAIN locations \subseteq Range(df.cols)
    /\ (call.op = "clean_df" /\ ~Truthy(call.custom)) => raised # "KeyError"
====
